---- MODULE Spec2Model ----
(***************************************************************************)
(* Secure-Auth-Express: the register / login / me routes of                *)
(* createAuthRouter (routes/authRouter.js) and the bearer-token gate       *)
(* authMiddleware (middleware/authMiddleware.js).                          *)
(*                                                                         *)
(* Strings the code inspects character by character (emails, names,       *)
(* passwords) are sequences of one-character strings.  An Authorization    *)
(* header is a sequence of symbols: a space, a word without spaces, or a   *)
(* compact JWT.  The clock counts whole seconds, as jsonwebtoken does.     *)
(***************************************************************************)
EXTENDS Integers, Sequences, FiniteSets, TLC

\* ------------------------------------------------------------------ bounds

\* Largest clock value (seconds) the model lets the clock reach.
MaxTime == 2

\* Longest Authorization header (in symbols) drawn by the header specification.
MaxHeaderLen == 5

\* ------------------------------------------------------- characters, strings

UpperSeq == <<"A","B","C","D","E","F","G","H","I","J","K","L","M",
              "N","O","P","Q","R","S","T","U","V","W","X","Y","Z">>

LowerSeq == <<"a","b","c","d","e","f","g","h","i","j","k","l","m",
              "n","o","p","q","r","s","t","u","v","w","x","y","z">>

Range(s) == { s[i] : i \in DOMAIN s }

\* /[A-Z]/, /[a-z]/, /[0-9]/ and the special-character class of validatePassword.
UpperChars == Range(UpperSeq)

LowerChars == Range(LowerSeq)

DigitChars == {"0","1","2","3","4","5","6","7","8","9"}

SpecialChars == {"!","@","#","$","%","^","&","*","(",")","_","+","-","=",
                 "[","]","{","}",";","'",":","\"","\\","|",",",".","<",">",
                 "/","?"}

\* The characters String.prototype.trim removes (those the inputs can hold).
WhiteSpace == {" ", "\t", "\n", "\r"}

\* String.prototype.toLowerCase, one character.
ToLowerChar(c) ==
  IF c \in UpperChars
    THEN LowerSeq[CHOOSE i \in DOMAIN UpperSeq : UpperSeq[i] = c]
    ELSE c

\* String.prototype.toLowerCase.
ToLowerCase(s) == [i \in DOMAIN s |-> ToLowerChar(s[i])]

RECURSIVE TrimStart(_)
TrimStart(s) ==
  IF s # <<>> /\ Head(s) \in WhiteSpace THEN TrimStart(Tail(s)) ELSE s

RECURSIVE TrimEnd(_)
TrimEnd(s) ==
  IF s # <<>> /\ s[Len(s)] \in WhiteSpace
    THEN TrimEnd(SubSeq(s, 1, Len(s) - 1))
    ELSE s

\* String.prototype.trim.
Trim(s) == TrimEnd(TrimStart(s))

\* email.toLowerCase().trim(): the form used for lookup and for storage.
NormalizeEmail(email) == Trim(ToLowerCase(email))

\* ------------------------------------------------------------ configuration

\* options.secret values the router may be constructed with; "" is the
\* absent / empty secret (both are falsy for `!secret`).
SecretOptions == {"", "k1"}

\* A secret that is not the configured one (another signer).
OtherSecret == "k2"

\* options.expiresIn, as the timespan in whole seconds jwt.sign adds to iat.
ExpiresInOptions == {1, 2}

\* options.bcryptRounds default.
DefaultBcryptRounds == 14

\* --------------------------------------------------------------- passwords

\* validatePassword with the uppercase test moved before the length test.
validatePasswordUpperFirst(password) ==
  IF Range(password) \cap UpperChars = {}
    THEN [isValid |-> FALSE,
          message |-> "Password must contain at least one uppercase letter"]
  ELSE IF Len(password) < 8
    THEN [isValid |-> FALSE,
          message |-> "Password must be at least 8 characters long"]
  ELSE IF Range(password) \cap LowerChars = {}
    THEN [isValid |-> FALSE,
          message |-> "Password must contain at least one lowercase letter"]
  ELSE IF Range(password) \cap DigitChars = {}
    THEN [isValid |-> FALSE,
          message |-> "Password must contain at least one number"]
  ELSE IF Range(password) \cap SpecialChars = {}
    THEN [isValid |-> FALSE,
          message |-> "Password must contain at least one special character"]
  ELSE [isValid |-> TRUE]

\* validatePassword(password): fail-fast, first violated rule gives the message.
validatePassword(password) ==
  IF Len(password) < 8
    THEN [isValid |-> FALSE,
          message |-> "Password must be at least 8 characters long"]
  ELSE IF Range(password) \cap UpperChars = {}
    THEN [isValid |-> FALSE,
          message |-> "Password must contain at least one uppercase letter"]
  ELSE IF Range(password) \cap LowerChars = {}
    THEN [isValid |-> FALSE,
          message |-> "Password must contain at least one lowercase letter"]
  ELSE IF Range(password) \cap DigitChars = {}
    THEN [isValid |-> FALSE,
          message |-> "Password must contain at least one number"]
  ELSE IF Range(password) \cap SpecialChars = {}
    THEN [isValid |-> FALSE,
          message |-> "Password must contain at least one special character"]
  ELSE [isValid |-> TRUE]

\* bcrypt.hash(password, rounds): a one-way value that binds the password.
BcryptHash(password, rounds) ==
  [alg |-> "bcrypt", rounds |-> rounds, of |-> password]

\* A comparison that is always truthy (the promise, not its value, is tested).
BcryptCompareAlways(password, hash) == TRUE

\* bcrypt.compare(password, hash).
BcryptCompare(password, hash) == hash.of = password

\* ------------------------------------------------------------------ tokens

\* user._id.toString(): the hex-string form of an ObjectId.
IdToString(id) == <<"hex", id>>

\* The header and payload a signature is computed over.
SigningInput(t) ==
  [alg |-> t.alg, json |-> t.json, userId |-> t.userId, email |-> t.email,
   iat |-> t.iat, exp |-> t.exp]

\* jwt.sign called without the expiresIn option taking effect: the expiry
\* lies beyond every time of the model.
JwtSignLongLived(userId, email, key, expiresIn, clock) ==
  LET body == [alg |-> "HS256", json |-> TRUE, userId |-> userId,
               email |-> email, iat |-> clock,
               exp |-> clock + expiresIn + MaxTime + 1]
  IN [t |-> "jwt", alg |-> body.alg, json |-> body.json,
      userId |-> body.userId, email |-> body.email,
      iat |-> body.iat, exp |-> body.exp,
      sig |-> [key |-> key, over |-> body]]

\* jwt.sign({userId, email}, secret, {expiresIn}) at clock value `clock`.
JwtSign(userId, email, key, expiresIn, clock) ==
  LET body == [alg |-> "HS256", json |-> TRUE, userId |-> userId,
               email |-> email, iat |-> clock, exp |-> clock + expiresIn]
  IN [t |-> "jwt", alg |-> body.alg, json |-> body.json,
      userId |-> body.userId, email |-> body.email,
      iat |-> body.iat, exp |-> body.exp,
      sig |-> [key |-> key, over |-> body]]

\* The signature part of a token with no signature (alg "none").
NoSig == [key |-> "", over |-> [alg |-> "none"]]

VerifyFailure(name) == [ok |-> FALSE, name |-> name]

\* jwt.decode in place of jwt.verify: the payload, with nothing checked.
JwtDecodeOnly(token, key, clock) ==
  IF Len(token) = 1 /\ token[1].t = "jwt" /\ token[1].json
    THEN [ok |-> TRUE,
          decoded |-> [userId |-> token[1].userId, email |-> token[1].email,
                       iat |-> token[1].iat, exp |-> token[1].exp]]
    ELSE VerifyFailure("JsonWebTokenError")

\* jwt.verify(token, secret) at clock value `clock`, on the string `token`
\* (a sequence of header symbols): the decoded payload, or the name of the
\* error thrown.  Order as in jsonwebtoken: presence, three segments, decode
\* (JSON.parse of the payload throws SyntaxError), signature presence,
\* algorithm, signature, expiry.
JwtVerify(token, key, clock) ==
  IF token = <<>> THEN VerifyFailure("JsonWebTokenError")
  ELSE IF Len(token) # 1 \/ token[1].t # "jwt"
    THEN VerifyFailure("JsonWebTokenError")
  ELSE LET jwt == token[1] IN
    IF ~jwt.json THEN VerifyFailure("SyntaxError")
    ELSE IF jwt.sig = NoSig THEN VerifyFailure("JsonWebTokenError")
    ELSE IF jwt.alg \notin {"HS256", "HS384", "HS512"}
      THEN VerifyFailure("JsonWebTokenError")
    ELSE IF ~(jwt.sig.key = key /\ jwt.sig.over = SigningInput(jwt))
      THEN VerifyFailure("JsonWebTokenError")
    ELSE IF clock >= jwt.exp THEN VerifyFailure("TokenExpiredError")
    ELSE [ok |-> TRUE,
          decoded |-> [userId |-> jwt.userId, email |-> jwt.email,
                       iat |-> jwt.iat, exp |-> jwt.exp]]

\* ----------------------------------------------------- authorization header

SP == [t |-> "sp"]

Word(s) == [t |-> "word", s |-> s]

\* authHeader.split(" "): the fields between single spaces (possibly empty).
RECURSIVE SplitFrom(_, _, _)
SplitFrom(h, i, cur) ==
  IF i > Len(h) THEN <<cur>>
  ELSE IF h[i].t = "sp" THEN <<cur>> \o SplitFrom(h, i + 1, <<>>)
  ELSE SplitFrom(h, i + 1, Append(cur, h[i]))

Split(h) == SplitFrom(h, 1, <<>>)

\* part === s, for a field of a split header and a word s.
IsString(part, s) == Len(part) = 1 /\ part[1].t = "word" /\ part[1].s = s

\* The Authorization header "Bearer <token>".
BearerHeader(jwt) == <<Word("Bearer"), SP, jwt>>

\* req.headers.authorization absent.
NoHeader == <<>>

\* A rejection sent with status 403.
RejectForbidden(message) ==
  [status |-> 403, body |-> [success |-> FALSE, message |-> message]]

Reject(message) ==
  [status |-> 401, body |-> [success |-> FALSE, message |-> message]]

\* The presence check left out.
HeaderMissingNever(authHeader) == FALSE

\* !authHeader: the header is absent (or empty).
HeaderMissing(authHeader) == authHeader = NoHeader

\* Extra fields let through (parts.length < 2 tested in place of !== 2).
HeaderAtLeastTwo(parts) == Len(parts) >= 2 /\ IsString(parts[1], "Bearer")

\* A format check that also wants the second field to hold something.
HeaderFormatOkNonEmpty(parts) ==
  Len(parts) = 2 /\ IsString(parts[1], "Bearer") /\ parts[2] # <<>>

\* The negation of `parts.length !== 2 || parts[0] !== "Bearer"`.
HeaderFormatOk(parts) == Len(parts) = 2 /\ IsString(parts[1], "Bearer")

\* The whole decoded payload attached (req.user = decoded, with id added).
AttachWholePayload(decoded) ==
  [id |-> decoded.userId, email |-> decoded.email, userId |-> decoded.userId,
   iat |-> decoded.iat, exp |-> decoded.exp]

\* req.user = { id: decoded.userId, email: decoded.email }.
AttachUser(decoded) == [id |-> decoded.userId, email |-> decoded.email]

\* Every jsonwebtoken error, TokenExpiredError included, taken for an invalid
\* token (TokenExpiredError extends JsonWebTokenError).
GateCatchByClass(name) ==
  IF name \in {"JsonWebTokenError", "TokenExpiredError"}
    THEN Reject("Invalid token")
    ELSE Reject("Authentication failed")

\* The catch block of the middleware, on the name of the error caught.
GateCatch(name) ==
  IF name = "JsonWebTokenError" THEN Reject("Invalid token")
  ELSE IF name = "TokenExpiredError" THEN Reject("Token has expired")
  ELSE Reject("Authentication failed")

\* The middleware with next() moved after the try / catch: a request whose
\* token fails verification is answered 401 and passed on as well.
authMiddlewareNextAfterCatch(authHeader, key, clock) ==
  IF HeaderMissing(authHeader)
    THEN [next |-> FALSE, verified |-> FALSE,
          res |-> Reject("Authorization header is required")]
  ELSE LET parts == Split(authHeader) IN
    IF ~HeaderFormatOk(parts)
      THEN [next |-> FALSE, verified |-> FALSE,
            res |-> Reject("Invalid authorization header format. Use: Bearer <token>")]
    ELSE LET v == JwtVerify(parts[2], key, clock) IN
      IF v.ok
        THEN [next |-> TRUE, verified |-> TRUE, user |-> AttachUser(v.decoded)]
        ELSE [next |-> TRUE, verified |-> TRUE, res |-> GateCatch(v.name),
              user |-> [id |-> IdToString(0), email |-> <<>>]]

\* The middleware returned by authMiddleware({secret}), on one request at
\* clock value `clock`.  next: whether next() was called; user: req.user;
\* verified: whether jwt.verify was called; res: the response sent, if any.
authMiddleware(authHeader, key, clock) ==
  IF HeaderMissing(authHeader)
    THEN [next |-> FALSE, verified |-> FALSE,
          res |-> Reject("Authorization header is required")]
  ELSE LET parts == Split(authHeader) IN
    IF ~HeaderFormatOk(parts)
      THEN [next |-> FALSE, verified |-> FALSE,
            res |-> Reject("Invalid authorization header format. Use: Bearer <token>")]
    ELSE LET v == JwtVerify(parts[2], key, clock) IN
      IF v.ok
        THEN [next |-> TRUE, verified |-> TRUE, user |-> AttachUser(v.decoded)]
        ELSE [next |-> FALSE, verified |-> TRUE, res |-> GateCatch(v.name)]

\* ------------------------------------------------ account directory (User)

\* The result of a query that matches no document.
NoUser == [none |-> TRUE]

\* User.findOne({email}).
UserFindOne(accounts, email) ==
  IF \E u \in accounts : u.email = email
    THEN CHOOSE u \in accounts : u.email = email
    ELSE NoUser

\* The ObjectId a hex string casts to.
CastObjectId(str) == str[2]

\* User.findById(id).
UserFindById(accounts, id) ==
  IF \E u \in accounts : u._id = CastObjectId(id)
    THEN CHOOSE u \in accounts : u._id = CastObjectId(id)
    ELSE NoUser

\* The _id the directory gives a new document: one no document has.
FreshId(accounts) == Cardinality(accounts) + 1

\* An id no account has: the subject of a token the application signed itself.
GhostId == 0

\* User.create(fields): the document stored, or the error thrown.  `fault` is
\* the directory's own failure, if any; the unique index on email rejects a
\* second document with the same email (duplicate key, code 11000).
UserCreate(accounts, fields, fault, clock) ==
  IF fault = "ValidationError"
    THEN [ok |-> FALSE, error |-> [code |-> 0, name |-> "ValidationError"]]
  ELSE IF fault = "Error"
    THEN [ok |-> FALSE, error |-> [code |-> 0, name |-> "MongoNetworkError"]]
  ELSE IF \E u \in accounts : u.email = fields.email
    THEN [ok |-> FALSE, error |-> [code |-> 11000, name |-> "MongoServerError"]]
  ELSE [ok |-> TRUE,
        user |-> [_id |-> FreshId(accounts), name |-> fields.name,
                  email |-> fields.email, password |-> fields.password,
                  createdAt |-> clock, updatedAt |-> clock]]

\* ---------------------------------------------------------------- responses

Respond(status, body) == [status |-> status, body |-> body]

\* A failure body that names its text `error` instead of `message`.
FailureNamedError(status, message) ==
  Respond(status, [success |-> FALSE, error |-> message])

Failure(status, message) ==
  Respond(status, [success |-> FALSE, message |-> message])

\* The catch block without the duplicate-key case.
RegisterCatchNoDuplicate(error) ==
  IF error.name = "ValidationError"
    THEN Failure(400, "validation messages")
    ELSE Failure(500, "Internal server error")

\* The catch block answering an unclassified error with the error's name.
RegisterCatchLeaky(error) ==
  IF error.code = 11000 THEN Failure(400, "Email already exists")
  ELSE IF error.name = "ValidationError"
    THEN Failure(400, "validation messages")
  ELSE Failure(500, error.name)

\* The catch block of POST /register.
RegisterCatch(error) ==
  IF error.code = 11000 THEN Failure(400, "Email already exists")
  ELSE IF error.name = "ValidationError"
    THEN Failure(400, "validation messages")
  ELSE Failure(500, "Internal server error")

\* The user object with the document's password field left in.
UserResponseWithPassword(user) ==
  [id |-> user._id, name |-> user.name, email |-> user.email,
   createdAt |-> user.createdAt, password |-> user.password]

\* The user object POST /register and POST /login return.
UserResponse(user) ==
  [id |-> user._id, name |-> user.name, email |-> user.email,
   createdAt |-> user.createdAt]

\* The user object GET /me returns.
MeUserResponse(user) ==
  [id |-> user._id, name |-> user.name, email |-> user.email,
   createdAt |-> user.createdAt, updatedAt |-> user.updatedAt]

\* An answer that tells a client the email has no account.
UserNotFoundResponse == Failure(404, "User not found")

\* The answer of POST /login when no account has the email (lines 175-180).
NoUserResponse == Failure(401, "Invalid email or password")

\* The answer of POST /login when the password does not match (lines 184-189).
WrongPasswordResponse == Failure(401, "Invalid email or password")

\* The lookup email trimmed but not lower-cased.
TrimOnly(email) == Trim(email)

\* The email POST /register looks up, the email it stores, and the email
\* POST /login looks up: each site computes email.toLowerCase().trim().
RegisterLookupEmail(email) == NormalizeEmail(email)

RegisterStoredEmail(email) == NormalizeEmail(email)

LoginLookupEmail(email) == NormalizeEmail(email)

\* POST /login after the required-field check: the lookup, the password
\* comparison and the token.  `fault`: the directory call fails.
LoginResult(accounts, email, password, key, ttl, clock, fault) ==
  IF fault THEN Failure(500, "Internal server error")
  ELSE LET user == UserFindOne(accounts, LoginLookupEmail(email)) IN
    IF user = NoUser THEN NoUserResponse
    ELSE IF ~BcryptCompare(password, user.password)
      THEN WrongPasswordResponse
    ELSE Respond(200,
           [success |-> TRUE, message |-> "Login successful",
            data |-> [token |-> JwtSign(IdToString(user._id), user.email,
                                         key, ttl, clock),
                      user |-> UserResponse(user)]])

\* The handler of GET /me answering an unknown subject like a bad token.
MeHandlerUnauthorized(accounts, reqUser, fault) ==
  IF fault THEN Failure(500, "Internal server error")
  ELSE LET user == UserFindById(accounts, reqUser.id) IN
    IF user = NoUser THEN Failure(401, "Invalid token")
    ELSE Respond(200,
           [success |-> TRUE, message |-> "User retrieved successfully",
            data |-> [user |-> MeUserResponse(user)]])

\* The handler of GET /me, after the gate let the request through.
MeHandler(accounts, reqUser, fault) ==
  IF fault THEN Failure(500, "Internal server error")
  ELSE LET user == UserFindById(accounts, reqUser.id) IN
    IF user = NoUser THEN Failure(404, "User not found")
    ELSE Respond(200,
           [success |-> TRUE, message |-> "User retrieved successfully",
            data |-> [user |-> MeUserResponse(user)]])

\* ------------------------------------------------------------------ inputs

StrongPassword == <<"S","e","c","u","r","e","1","!">>

OtherStrongPassword == <<"S","e","c","u","r","e","2","?">>

WeakPassword == <<"s","e","c","r","e","t">>

Body(name, email, password) ==
  [name |-> name, email |-> email, password |-> password]

\* Request bodies of POST /register; <<>> is an absent (or empty) field.
RegisterBodies ==
  { Body(<<>>, <<"a">>, StrongPassword),
    Body(<<"J","o">>, <<>>, StrongPassword),
    Body(<<"J","o">>, <<"a">>, <<>>),
    Body(<<"J","o">>, <<"a">>, WeakPassword),
    Body(<<"J","o">>, <<"a">>, StrongPassword),
    Body(<<"J","o">>, <<"A"," ">>, StrongPassword),
    Body(<<" ","E","d">>, <<"b">>, StrongPassword) }

\* Request bodies of POST /login.
LoginBodies ==
  { [email |-> e, password |-> p] :
      e \in { <<"a">>, <<" ","A">>, <<"b">> },
      p \in { StrongPassword, OtherStrongPassword } }
    \cup { [email |-> <<>>, password |-> StrongPassword],
           [email |-> <<"a">>, password |-> <<>>] }

\* Most POST /register requests in flight (between findOne and create) at once.
MaxPending == 2

NoToken == [t |-> "none"]

\* ------------------------------------------------------------------- state

VARIABLES
  secret,     \* options.secret of createAuthRouter (and of its authMiddleware)
  expiresIn,  \* options.expiresIn, in seconds
  router,     \* "ready", or "failed" when construction threw
  now,        \* the clock, in seconds
  users,      \* the documents of the User collection
  pending,    \* the /register requests between findOne and create
  held,       \* a token a client kept from a login response
  last        \* the last request handled: its input and what was answered

vars == <<secret, expiresIn, router, now, users, pending, held, last>>

\* `!secret`: the secret is absent or the empty string.
SecretFalsy(s) == s = ""

\* authMiddleware(options): throws unless the secret is truthy, else returns
\* the middleware.
authMiddlewareFactory(s) == IF SecretFalsy(s) THEN "failed" ELSE "ready"

\* A router that is returned whatever the secret is.
createAuthRouterUnchecked(s) == "ready"

\* createAuthRouter(options): throws unless the secret is truthy, then
\* builds the routes, constructing the gate of GET /me with the same secret.
createAuthRouter(s) ==
  IF SecretFalsy(s) THEN "failed" ELSE authMiddlewareFactory(s)

\* The state after createAuthRouter(options) returned or threw.
Init ==
  /\ secret \in SecretOptions
  /\ expiresIn \in ExpiresInOptions
  /\ router = createAuthRouter(secret)
  /\ now = 0
  /\ users = {}
  /\ pending = {}
  /\ held = NoToken
  /\ last = [op |-> "none"]

\* The clock advances.
Tick ==
  /\ router = "ready"
  /\ now < MaxTime
  /\ now' = now + 1
  /\ UNCHANGED <<secret, expiresIn, router, users, pending, held, last>>

\* POST /register with the existence check moved before the password check.
RegisterStartExistenceFirst(req, fault) ==
  /\ router = "ready"
  /\ LET answer(failed, res) ==
           /\ last' = [op |-> "register", stage |-> "check", req |-> req,
                       created |-> FALSE, fault |-> failed, res |-> res]
           /\ UNCHANGED pending
     IN IF req.name = <<>> \/ req.email = <<>> \/ req.password = <<>>
          THEN ~fault /\ answer(FALSE,
                 Failure(400, "Name, email, and password are required"))
        ELSE IF fault
          THEN answer(TRUE,
                 RegisterCatch([code |-> 0, name |-> "MongoNetworkError"]))
        ELSE IF UserFindOne(users, RegisterLookupEmail(req.email)) # NoUser
          THEN answer(FALSE, Failure(400, "Email already exists"))
        ELSE IF ~validatePassword(req.password).isValid
          THEN answer(FALSE,
                 Failure(400, validatePassword(req.password).message))
        ELSE /\ Cardinality(pending \cup {req}) <= MaxPending
             /\ pending' = pending \cup {req}
             /\ last' = [op |-> "register", stage |-> "passed", req |-> req,
                         created |-> FALSE, fault |-> FALSE]
  /\ UNCHANGED <<secret, expiresIn, router, now, users, held>>

\* POST /register up to the existence check (lines 78-104): answered at once
\* with an error (stage "check"), or left waiting for bcrypt.hash and
\* User.create with nothing answered yet (stage "passed").
\* `fault`: User.findOne throws.
RegisterStart(req, fault) ==
  /\ router = "ready"
  /\ LET answer(failed, res) ==
           /\ last' = [op |-> "register", stage |-> "check", req |-> req,
                       created |-> FALSE, fault |-> failed, res |-> res]
           /\ UNCHANGED pending
     IN IF req.name = <<>> \/ req.email = <<>> \/ req.password = <<>>
          THEN ~fault /\ answer(FALSE,
                 Failure(400, "Name, email, and password are required"))
        ELSE IF ~validatePassword(req.password).isValid
          THEN ~fault /\ answer(FALSE,
                 Failure(400, validatePassword(req.password).message))
        ELSE IF fault
          THEN answer(TRUE,
                 RegisterCatch([code |-> 0, name |-> "MongoNetworkError"]))
        ELSE IF UserFindOne(users, RegisterLookupEmail(req.email)) # NoUser
          THEN answer(FALSE, Failure(400, "Email already exists"))
        ELSE /\ Cardinality(pending \cup {req}) <= MaxPending
             /\ pending' = pending \cup {req}
             /\ last' = [op |-> "register", stage |-> "passed", req |-> req,
                         created |-> FALSE, fault |-> FALSE]
  /\ UNCHANGED <<secret, expiresIn, router, now, users, held>>

\* POST /register from bcrypt.hash on (lines 106-153).  `fault`: "hash" when
\* bcrypt.hash throws, else what User.create fails with on its own, or "none".
RegisterFinish(req, fault) ==
  /\ router = "ready"
  /\ req \in pending
  /\ LET made == UserCreate(users,
                   [name |-> Trim(req.name),
                    email |-> RegisterStoredEmail(req.email),
                    password |-> BcryptHash(req.password, DefaultBcryptRounds)],
                   fault, now)
         record(created, res) ==
           last' = [op |-> "register", stage |-> "create", req |-> req,
                    created |-> created, fault |-> (fault # "none"),
                    cause |-> fault, res |-> res]
     IN IF fault = "hash"
          THEN /\ record(FALSE, RegisterCatch([code |-> 0, name |-> "Error"]))
               /\ UNCHANGED users
        ELSE IF ~made.ok
          THEN /\ record(FALSE, RegisterCatch(made.error))
               /\ UNCHANGED users
        ELSE /\ users' = users \cup {made.user}
             /\ record(TRUE,
                  Respond(201, [success |-> TRUE,
                                message |-> "User registered successfully",
                                data |-> [user |-> UserResponse(made.user)]]))
  /\ pending' = pending \ {req}
  /\ UNCHANGED <<secret, expiresIn, router, now, held>>

\* POST /login that also stamps the account it logged in (user.save()).
LoginTouchingUser(req, fault) ==
  /\ router = "ready"
  /\ LET missing == req.email = <<>> \/ req.password = <<>>
         res == IF missing
                  THEN Failure(400, "Email and password are required")
                  ELSE LoginResult(users, req.email, req.password, secret,
                                   expiresIn, now, fault)
     IN /\ fault => ~missing
        /\ last' = [op |-> "login", req |-> req, fault |-> fault, res |-> res]
        /\ \/ UNCHANGED held
           \/ /\ res.status = 200
              /\ held' = res.body.data.token
        /\ users' = IF res.status = 200
                      THEN { IF u._id = res.body.data.user.id
                               THEN [u EXCEPT !.updatedAt = now + 1] ELSE u :
                             u \in users }
                      ELSE users
  /\ UNCHANGED <<secret, expiresIn, router, now, pending>>

\* POST /login (lines 160-225).  `fault`: User.findOne throws.  The client may
\* keep the token it is sent.
Login(req, fault) ==
  /\ router = "ready"
  /\ LET missing == req.email = <<>> \/ req.password = <<>>
         res == IF missing
                  THEN Failure(400, "Email and password are required")
                  ELSE LoginResult(users, req.email, req.password, secret,
                                   expiresIn, now, fault)
     IN /\ fault => ~missing
        /\ last' = [op |-> "login", req |-> req, fault |-> fault, res |-> res]
        /\ \/ UNCHANGED held
           \/ /\ res.status = 200
              /\ held' = res.body.data.token
  /\ UNCHANGED <<secret, expiresIn, router, now, users, pending>>

\* ----------------------------------------------- tokens a client can present

\* A token with one part altered after issuance; the signature part stays as
\* issued unless it is the part altered.
Altered(jwt) ==
  { [jwt EXCEPT !.userId = IdToString(GhostId)],
    [jwt EXCEPT !.email = <<"x">>],
    [jwt EXCEPT !.exp = jwt.exp + MaxTime + 1],
    [jwt EXCEPT !.json = FALSE],
    [jwt EXCEPT !.alg = "none", !.sig = NoSig],
    [jwt EXCEPT !.alg = "HS384"],
    [jwt EXCEPT !.sig.key = "" ] }

\* A token signed by someone who does not hold the configured secret.
ForeignToken(ttl, clock) ==
  JwtSign(IdToString(1), <<"a">>, OtherSecret, ttl, clock)

\* A token the application signed itself with the configured secret, for a
\* subject the directory does not hold.
GhostToken(key, ttl, clock) ==
  JwtSign(IdToString(GhostId), <<"g">>, key, ttl, clock)

\* What can stand after "Bearer " in a header sent now.
Presentable ==
  (IF held = NoToken THEN {} ELSE {held} \cup Altered(held))
    \cup {ForeignToken(expiresIn, now), GhostToken(secret, expiresIn, now)}

\* The Authorization headers the requests of this specification carry.
HeaderInputs ==
  { NoHeader,
    <<Word("Token"), SP, Word("xyz")>>,
    <<Word("Bearer"), SP, Word("xyz")>>,
    <<Word("Bearer"), SP>> }
    \cup { BearerHeader(t) : t \in Presentable }

\* GET /me (lines 231-263): the gate, then the handler if the gate calls
\* next().  `fault`: User.findById throws.
Me(authHeader, fault) ==
  /\ router = "ready"
  /\ LET gate == authMiddleware(authHeader, secret, now)
         res == IF gate.next THEN MeHandler(users, gate.user, fault)
                             ELSE gate.res
     IN /\ fault => gate.next
        /\ last' = [op |-> "me", header |-> authHeader, clock |-> now,
                    gate |-> gate, fault |-> fault, res |-> res]
  /\ UNCHANGED <<secret, expiresIn, router, now, users, pending, held>>

Next ==
  \/ Tick
  \/ \E req \in RegisterBodies, fault \in BOOLEAN : RegisterStart(req, fault)
  \/ \E req \in RegisterBodies,
        fault \in {"none", "hash", "ValidationError", "Error"} :
       RegisterFinish(req, fault)
  \/ \E req \in LoginBodies, fault \in BOOLEAN : Login(req, fault)
  \/ \E authHeader \in HeaderInputs, fault \in BOOLEAN : Me(authHeader, fault)

Spec == Init /\ [][Next]_vars

\* ------------------------------------------ the gate over a header universe

\* The non-space symbols of the headers drawn below: words and a token signed
\* with the configured secret.
HeaderWords ==
  { Word("Bearer"), Word("bearer"), Word("xyz"),
    GhostToken(secret, expiresIn, now) }

\* The headers of exactly n symbols in which spaces separate the other
\* symbols (two adjacent non-space symbols would spell one longer word).
RECURSIVE HeadersOfLen(_)
HeadersOfLen(n) ==
  IF n = 0 THEN { <<>> }
  ELSE LET shorter == HeadersOfLen(n - 1)
       IN { Append(h, SP) : h \in shorter }
            \cup { Append(h, w) :
                     h \in { g \in shorter : g = <<>> \/ g[Len(g)].t = "sp" },
                     w \in HeaderWords }

\* Every such header of at most MaxHeaderLen symbols.
HeaderUniverse == UNION { HeadersOfLen(n) : n \in 0..MaxHeaderLen }

NextHdr ==
  \E authHeader \in HeaderUniverse, fault \in BOOLEAN : Me(authHeader, fault)

\* GET /me requests with every header of the universe, on an empty directory.
SpecHdr == Init /\ [][NextHdr]_vars

\* ----------------------------------- validatePassword over a password universe

\* One character of each kind the five tests tell apart: an uppercase letter,
\* a lowercase letter, a digit, a special character of the README's list, the
\* backslash, and a character of no class.
PwAlphabet == <<"A", "a", "1", "!", "\\", " ">>

\* Longest password of the universe.
MaxPwLen == 9

\* The characters of PwAlphabet at the positions of S, from position i on.
RECURSIVE PickFrom(_, _)
PickFrom(i, S) ==
  IF i > Len(PwAlphabet) THEN <<>>
  ELSE (IF i \in S THEN <<PwAlphabet[i]>> ELSE <<>>) \o PickFrom(i + 1, S)

\* The password of n characters that repeats the characters chars in turn.
CyclePassword(chars, n) ==
  [i \in 1..n |-> chars[((i - 1) % Len(chars)) + 1]]

\* The special characters the README lists (Password Requirements).
DocumentedSpecialChars ==
  {"!","@","#","$","%","^","&","*","(",")","_","+","-","=","[","]","{","}",
   "|",";","'",":","\"",",",".","/","<",">","?"}

\* Last characters tried after a password that lacks only a special character.
ProbeChars == SpecialChars \cup DocumentedSpecialChars \cup {" ", "~"}

\* Every mix of character kinds at every length up to MaxPwLen, and
\* "Abcdef1" followed by each probe character.
PasswordUniverse ==
  { CyclePassword(PickFrom(1, S), n) :
      S \in (SUBSET (1..Len(PwAlphabet))) \ {{}}, n \in 0..MaxPwLen }
    \cup { <<"A","b","c","d","e","f","1", c>> : c \in ProbeChars }

\* validatePassword(password) is called.
Validate(password) ==
  /\ last' = [op |-> "validate", password |-> password,
              res |-> validatePassword(password)]
  /\ UNCHANGED <<secret, expiresIn, router, now, users, pending, held>>

NextPw == \E password \in PasswordUniverse : Validate(password)

\* Calls of validatePassword with every password of the universe.
SpecPw == Init /\ [][NextPw]_vars

\* ------------------------------------- GET /me requests handled concurrently

\* Tokens issued at time 0, for the secret of the router: one for subject 1,
\* one for the subject nothing stores; and one of another signer.
GateTokens ==
  { JwtSign(IdToString(1), <<"a">>, secret, expiresIn, 0),
    GhostToken(secret, expiresIn, 0),
    ForeignToken(expiresIn, 0) }

\* The headers of the concurrent requests.
GateHeaders ==
  { NoHeader, <<Word("Bearer"), SP, Word("xyz")>> }
    \cup { BearerHeader(t) : t \in GateTokens }

\* The identity of the request the gate passed on most recently, when the
\* latest step passed one on: a variable the requests share.
ReqUserOfLatest(request, latest) ==
  IF latest.gate.next THEN latest.gate.user ELSE request.gate.user

\* req.user as the handler of GET /me reads it: the property of its own
\* request object.
ReqUser(request, latest) == request.gate.user

\* The gate runs on one request (it has no await: one step); a request it
\* passes on waits in `pending` for its handler's User.findById.
MeGate(authHeader) ==
  /\ router = "ready"
  /\ LET gate == authMiddleware(authHeader, secret, now)
         request == [header |-> authHeader, clock |-> now, gate |-> gate]
     IN /\ last' = [op |-> "gate", header |-> authHeader, clock |-> now,
                    gate |-> gate]
        /\ IF gate.next
             THEN /\ Cardinality(pending \cup {request}) <= MaxPending
                  /\ pending' = pending \cup {request}
             ELSE UNCHANGED pending
  /\ UNCHANGED <<secret, expiresIn, router, now, users, held>>

\* The handler of a request the gate passed on answers it.
MeHandle(request, fault) ==
  /\ router = "ready"
  /\ request \in pending
  /\ LET seen == ReqUser(request, last)
     IN last' = [op |-> "me", header |-> request.header,
                 clock |-> request.clock, gate |-> request.gate,
                 seen |-> seen, fault |-> fault,
                 res |-> MeHandler(users, seen, fault)]
  /\ pending' = pending \ {request}
  /\ UNCHANGED <<secret, expiresIn, router, now, users, held>>

NextGate ==
  \/ Tick
  \/ \E authHeader \in GateHeaders : MeGate(authHeader)
  \/ \E request \in pending, fault \in BOOLEAN : MeHandle(request, fault)

\* GET /me requests in flight together, their gates and handlers interleaved.
SpecGate == Init /\ [][NextGate]_vars

\* ------------------------------------------------------------------ claims

\* The header is "Bearer <jwt>": the scheme, one space, one compact JWT.
CarriesToken(h) ==
  Len(h) = 3 /\ h[1] = Word("Bearer") /\ h[2] = SP /\ h[3].t = "jwt"

\* The token's signature is the key's signature over the token as it stands.
SignedFor(jwt, key) == jwt.sig.key = key /\ jwt.sig.over = SigningInput(jwt)

\* Two emails equal up to letter case and leading / trailing whitespace.
SameMailbox(e1, e2) == Trim(ToLowerCase(e1)) = Trim(ToLowerCase(e2))

FormatMessage == "Invalid authorization header format. Use: Bearer <token>"

\* C1: a request reaches the protected handler (the gate called next) only
\* if its token's signature validates against the configured secret and the
\* clock at the check was strictly before the token's expiry.
C1_ProceedsOnlyIfSignedAndUnexpired ==
  (last.op = "me" /\ last.gate.next) =>
    /\ CarriesToken(last.header)
    /\ SignedFor(last.header[3], secret)
    /\ last.clock < last.header[3].exp

\* A token kept from a login response let a request through the gate.
C1_Witness ==
  /\ last.op = "me" /\ last.gate.next
  /\ held # NoToken /\ last.header = BearerHeader(held)

\* C2: a token issued by login and presented in the second it was issued is
\* accepted, and req.user has exactly the fields id and email, those of the
\* account the token was issued for (the id in its string form).
C2_IssuedTokenAcceptedAtOnce ==
  /\ (last.op = "login" /\ last.res.status = 200) =>
       \E u \in users :
         /\ SameMailbox(u.email, last.req.email)
         /\ last.res.body.data.token.userId = IdToString(u._id)
         /\ last.res.body.data.token.email = u.email
         /\ last.res.body.data.token.exp > last.res.body.data.token.iat
  /\ (last.op = "me" /\ held # NoToken /\ last.header = BearerHeader(held)
        /\ last.clock = held.iat) =>
       /\ last.gate.next
       /\ DOMAIN last.gate.user = {"id", "email"}
       /\ last.gate.user.id = held.userId
       /\ last.gate.user.email = held.email
       /\ \E u \in users : /\ IdToString(u._id) = last.gate.user.id
                           /\ u.email = last.gate.user.email

\* The token of a login was presented in the second of its issuance.
C2_Witness ==
  /\ last.op = "me" /\ held # NoToken /\ last.header = BearerHeader(held)
  /\ last.clock = held.iat /\ last.gate.next

\* C3: a token correctly signed for the configured secret and presented at or
\* after its expiry is rejected with 401 "Token has expired".
C3_ExpiredTokenReportedExpired ==
  (last.op = "me" /\ CarriesToken(last.header)
     /\ SignedFor(last.header[3], secret)
     /\ last.clock >= last.header[3].exp) =>
    /\ ~last.gate.next
    /\ last.res = Reject("Token has expired")

\* A login token was presented after it expired.
C3_Witness ==
  /\ last.op = "me" /\ held # NoToken /\ last.header = BearerHeader(held)
  /\ last.clock >= held.exp /\ last.res.status = 401

\* C4: a token that is not the configured secret's signature over its present
\* content (signed with another secret, or altered after issuance) is
\* rejected with 401 "Invalid token" and the request does not proceed.
C4_TamperedTokenReportedInvalid ==
  (last.op = "me" /\ CarriesToken(last.header)
     /\ ~SignedFor(last.header[3], secret)) =>
    /\ ~last.gate.next
    /\ last.res = Reject("Invalid token")

\* C5: when a registration reaches User.create (its existence check passed)
\* and the directory does not fail, either it creates the account, or the
\* email is held by then and it is answered 400 "Email already exists"; no
\* two accounts ever hold the same mailbox.
C5_RaceLoserGetsDuplicateEmail ==
  /\ \A u1, u2 \in users : SameMailbox(u1.email, u2.email) => u1 = u2
  /\ (last.op = "register" /\ last.stage = "create" /\ ~last.fault) =>
       \/ /\ last.created
          /\ last.res.status = 201
       \/ /\ ~last.created
          /\ \E u \in users : SameMailbox(u.email, last.req.email)
          /\ last.res = Failure(400, "Email already exists")

\* A registration passed the existence check and lost the race at create.
C5_Witness ==
  /\ last.op = "register" /\ last.stage = "create" /\ ~last.fault
  /\ ~last.created
  /\ last.res = Failure(400, "Email already exists")

\* C6: a registration (all fields present, password accepted, lookup not
\* failing) whose email is, up to case and outer whitespace, that of a stored
\* account is answered 400 "Email already exists" at the existence check, and
\* no second account for that mailbox is ever stored.
C6_VariantEmailIsDuplicate ==
  /\ \A u1, u2 \in users : SameMailbox(u1.email, u2.email) => u1._id = u2._id
  /\ (last.op = "register" /\ last.stage \in {"check", "passed"}
        /\ ~last.fault
        /\ last.req.name # <<>> /\ last.req.password # <<>>
        /\ validatePassword(last.req.password).isValid
        /\ \E u \in users : SameMailbox(u.email, last.req.email)) =>
       /\ last.stage = "check"
       /\ last.res = Failure(400, "Email already exists")

\* A registration with a case / whitespace variant of a stored email was
\* turned down at the existence check.
C6_Witness ==
  /\ last.op = "register" /\ last.stage = "check"
  /\ last.res = Failure(400, "Email already exists")
  /\ \E u \in users : /\ SameMailbox(u.email, last.req.email)
                      /\ u.email # last.req.email

\* C7: a login (both fields present, lookup not failing) that names no
\* account, and one that names an account with another password, get the
\* same answer: 401 "Invalid email or password", with no data.
C7_LoginFailuresIndistinguishable ==
  (last.op = "login" /\ ~last.fault
     /\ last.req.email # <<>> /\ last.req.password # <<>>
     /\ ~\E u \in users : /\ SameMailbox(u.email, last.req.email)
                          /\ u.password = BcryptHash(last.req.password,
                                                     DefaultBcryptRounds)) =>
    last.res = Failure(401, "Invalid email or password")

\* A login with the email of an account and a wrong password was refused.
C7_Witness ==
  /\ last.op = "login" /\ ~last.fault /\ last.res.status = 401
  /\ \E u \in users : SameMailbox(u.email, last.req.email)

C9_MissingHeaderRejected ==
  (last.op = "me" /\ last.header = NoHeader) =>
    /\ last.res = Reject("Authorization header is required")
    /\ ~last.gate.verified
    /\ ~last.gate.next

\* A request without a header was handled.
C9_Witness ==
  /\ last.op = "me" /\ last.header = NoHeader /\ last.res.status = 401

\* The header does not consist of exactly two fields around one space, the
\* first of them the word Bearer.
NotBearerPair(h) ==
  ~(/\ Cardinality({ i \in DOMAIN h : h[i].t = "sp" }) = 1
    /\ h[1] = Word("Bearer"))

\* C10: a header that is present but is not exactly two space-separated
\* fields with the first equal to "Bearer" is answered 401 with the
\* header-format message, and jwt.verify is not called.
C10_MalformedHeaderRejected ==
  (last.op = "me" /\ last.header # NoHeader /\ NotBearerPair(last.header)) =>
    /\ last.res = Reject(FormatMessage)
    /\ ~last.gate.verified
    /\ ~last.gate.next

\* The header "Bearer xyz xyz" (three fields) was handled.
C10_Witness ==
  /\ last.op = "me"
  /\ last.header = <<Word("Bearer"), SP, Word("xyz"), SP, Word("xyz")>>
  /\ last.res = Reject(FormatMessage)

\* The four reasons a gate rejection is documented to carry.
GateReasons ==
  { "Authorization header is required", FormatMessage,
    "Invalid token", "Token has expired" }

\* C11: every request through the gate ends in exactly one of two ways:
\* the gate sent one rejection (a 401 failure, which is the request's whole
\* answer, no identity attached, next not called), or the gate called next
\* with an identity of id and email attached and sent nothing itself.
C11_RejectsOrProceedsNeverBoth ==
  last.op = "me" =>
    LET gate == last.gate
        rejected == /\ "res" \in DOMAIN gate
                    /\ ~gate.next
                    /\ "user" \notin DOMAIN gate
                    /\ gate.res.status = 401
                    /\ gate.res.body.success = FALSE
                    /\ last.res = gate.res
        proceeded == /\ gate.next
                     /\ "res" \notin DOMAIN gate
                     /\ "user" \in DOMAIN gate
                     /\ DOMAIN gate.user = {"id", "email"}
    IN (rejected \/ proceeded) /\ ~(rejected /\ proceeded)

\* A request rejected after verification (its token had expired), and not
\* passed on.
C11_Witness ==
  /\ last.op = "me"
  /\ last.gate.verified
  /\ ~last.gate.next
  /\ last.gate.res = Reject("Token has expired")
  /\ last.res = last.gate.res

\* C12: every rejection by the gate carries one of the four documented
\* reasons, and every failure of token verification is reported as
\* "Invalid token" or "Token has expired".
C12_RejectionHasOneOfFourReasons ==
  (last.op = "me" /\ ~last.gate.next) =>
    /\ last.gate.res.body.message \in GateReasons
    /\ last.gate.verified =>
         last.gate.res.body.message \in {"Invalid token", "Token has expired"}

\* C13: the stored accounts change only in a registration step that answers
\* 201, and that step adds exactly one account and keeps the others; the
\* gate, login, GET /me and every registration step that answers an error
\* (missing fields, weak password, duplicate email, internal error) leave
\* the accounts as they were.
C13_AccountsChangeOnlyByRegistration ==
  [][ /\ users' # users =>
           /\ last'.op = "register"
           /\ last'.stage = "create"
           /\ last'.created
           /\ last'.res.status = 201
           /\ \E u \in users' \ users : users' = users \cup {u}
      /\ (last' # last /\ last'.op \in {"login", "me"}) => users' = users
      /\ (last' # last /\ last'.op = "register" /\ "res" \in DOMAIN last'
             /\ last'.res.status # 201) => users' = users
      /\ (last' # last /\ last'.op = "register" /\ "res" \in DOMAIN last'
             /\ last'.res.status = 201) => Cardinality(users') = Cardinality(users) + 1
    ]_vars

\* A second account was stored by a registration answered 201, after a
\* first one.
C13_Witness ==
  /\ last.op = "register"
  /\ last.stage = "create"
  /\ last.created
  /\ last.res.status = 201
  /\ Cardinality(users) = 2

\* A field of a request body is absent (or the empty string).
FieldMissing(req) == req.name = <<>> \/ req.email = <<>> \/ req.password = <<>>

\* C14: registration checks in a fixed order and the first failing check
\* decides the answer: missing fields, else a weak password (answered with
\* the policy's message, also when the email is already registered), else a
\* registered email; only a request that passes all three goes on to hashing
\* and account creation.
C14_RegistrationChecksInOrder ==
  last.op = "register" =>
    LET req == last.req
        weak == ~validatePassword(req.password).isValid
        taken == \E u \in users : SameMailbox(u.email, req.email)
    IN /\ (last.stage = "check" /\ ~last.fault) =>
            /\ last.res.status = 400
            /\ last.res.body.message =
                 IF FieldMissing(req)
                   THEN "Name, email, and password are required"
                 ELSE IF weak THEN validatePassword(req.password).message
                 ELSE "Email already exists"
            /\ (~FieldMissing(req) /\ ~weak) => taken
       /\ (last.stage = "check" /\ last.fault) =>
            ~FieldMissing(req) /\ ~weak
       /\ last.stage = "passed" => ~FieldMissing(req) /\ ~weak /\ ~taken
       /\ last.stage = "create" => ~FieldMissing(req) /\ ~weak
       /\ last.created =>
            \E u \in users :
              /\ SameMailbox(u.email, req.email)
              /\ u.password = BcryptHash(req.password, DefaultBcryptRounds)

\* A weak password sent with an email that is already registered was
\* answered with the policy's message.
C14_Witness ==
  /\ last.op = "register"
  /\ last.stage = "check"
  /\ last.req.password = WeakPassword
  /\ \E u \in users : SameMailbox(u.email, last.req.email)
  /\ last.res = Failure(400, "Password must be at least 8 characters long")

\* The five rules in the documented order, and the reason of each.
RuleReason ==
  << "Password must be at least 8 characters long",
     "Password must contain at least one uppercase letter",
     "Password must contain at least one lowercase letter",
     "Password must contain at least one number",
     "Password must contain at least one special character" >>

\* The rules password p violates, the special-character rule read with the
\* README's list.
RulesViolated(p) ==
  { i \in 1..5 :
      \/ i = 1 /\ Len(p) < 8
      \/ i = 2 /\ ~\E k \in DOMAIN p : p[k] \in UpperChars
      \/ i = 3 /\ ~\E k \in DOMAIN p : p[k] \in LowerChars
      \/ i = 4 /\ ~\E k \in DOMAIN p : p[k] \in DigitChars
      \/ i = 5 /\ ~\E k \in DOMAIN p : p[k] \in DocumentedSpecialChars }

\* C15: validatePassword reports a password valid if and only if it violates
\* none of the five rules (the special characters being those the README
\* lists), and a password that violates exactly one rule gets that rule's
\* reason.
C15_ValidIffFiveDocumentedRules ==
  last.op = "validate" =>
    LET violated == RulesViolated(last.password) IN
      /\ last.res.isValid <=> violated = {}
      /\ \A i \in 1..5 :
           violated = {i} =>
             ~last.res.isValid /\ last.res.message = RuleReason[i]

\* C16: for a password that violates several rules validatePassword reports
\* one reason, that of the first rule violated in the order length,
\* uppercase, lowercase, digit, special character.
C16_FirstViolatedRuleReported ==
  last.op = "validate" =>
    LET violated == RulesViolated(last.password)
        first == CHOOSE i \in violated : \A j \in violated : i <= j
    IN Cardinality(violated) >= 2 =>
         /\ ~last.res.isValid
         /\ DOMAIN last.res = {"isValid", "message"}
         /\ last.res.message = RuleReason[first]

\* A password of eight lowercase letters and spaces (no uppercase letter, no
\* digit, no special character) was reported for its missing uppercase letter.
C16_Witness ==
  /\ last.op = "validate"
  /\ Len(last.password) = 8
  /\ RulesViolated(last.password) = {2, 4, 5}
  /\ last.res.message = RuleReason[2]

\* The texts a response's message can be: each is fixed in the source or made
\* by the directory's validators, none is built from a request's password or
\* from a stored hash.
FixedMessages ==
  Range(RuleReason) \cup
  { "Name, email, and password are required", "Email already exists",
    "validation messages", "Internal server error",
    "User registered successfully", "Email and password are required",
    "Invalid email or password", "Login successful", "User not found",
    "User retrieved successfully", "Authentication failed" } \cup GateReasons

\* The user object shows the account of that id, through the fields named
\* and no other.
ShowsAccount(object, fields) ==
  /\ DOMAIN object = fields
  /\ \E u \in users :
       /\ object.id = u._id
       /\ object.name = u.name
       /\ object.email = u.email
       /\ object.createdAt = u.createdAt
       /\ "updatedAt" \in fields => object.updatedAt = u.updatedAt

\* C17: no response of register, login or GET /me holds the stored hash or
\* the plaintext password: a body is success, a fixed message and at most
\* data; data is at most a token and a user object; the token's payload names
\* the account's id and email; the user object has exactly id, name, email,
\* createdAt (and updatedAt for GET /me), each the account's own.
C17_NoPasswordInResponses ==
  (last.op \in {"register", "login", "me"} /\ "res" \in DOMAIN last) =>
    LET body == last.res.body IN
      /\ DOMAIN body \subseteq {"success", "message", "data"}
      /\ body.message \in FixedMessages
      /\ "data" \in DOMAIN body =>
           /\ DOMAIN body.data =
                IF last.op = "login" THEN {"token", "user"} ELSE {"user"}
           /\ ShowsAccount(body.data.user,
                IF last.op = "me"
                  THEN {"id", "name", "email", "createdAt", "updatedAt"}
                  ELSE {"id", "name", "email", "createdAt"})
           /\ last.op = "login" =>
                /\ DOMAIN body.data.token =
                     {"t", "alg", "json", "userId", "email", "iat", "exp", "sig"}
                /\ body.data.token.userId = IdToString(body.data.user.id)
                /\ body.data.token.email = body.data.user.email

\* A login was answered 200 with a token and the user object.
C17_Witness ==
  /\ last.op = "login"
  /\ last.res.status = 200
  /\ last.req.password = StrongPassword
  /\ "user" \in DOMAIN last.res.body.data

\* C18: every stored email equals its own lowercased and trimmed form, no
\* two stored accounts have the same email, a created account is stored
\* under the normalized form of the email requested, and a login with any
\* case / whitespace variant of a registered email and that account's
\* password is answered with that account.
C18_EmailNormalizedEverywhere ==
  /\ \A u \in users : u.email = Trim(ToLowerCase(u.email))
  /\ \A u, v \in users : u.email = v.email => u = v
  /\ (last.op = "register" /\ last.created) =>
       \E u \in users :
         /\ u.email = Trim(ToLowerCase(last.req.email))
         /\ last.res.body.data.user.id = u._id
  /\ (last.op = "login" /\ ~last.fault
        /\ last.req.email # <<>> /\ last.req.password # <<>>) =>
       \A u \in users :
         (SameMailbox(u.email, last.req.email)
            /\ u.password.of = last.req.password) =>
           /\ last.res.status = 200
           /\ last.res.body.data.user.id = u._id

\* A login as " A" was answered with the account stored as "a".
C18_Witness ==
  /\ last.op = "login"
  /\ last.req.email = <<" ", "A">>
  /\ last.res.status = 200
  /\ last.res.body.data.user.email = <<"a">>
  /\ last.res.body.data.user.name = <<"J", "o">>

\* C19: a router (and the gate it builds) constructed with an absent or
\* empty secret failed at construction, and no request was ever handled by
\* it: nothing answered, no token issued or verified, no account stored.
C19_NoSecretNoService ==
  /\ secret = "" =>
       /\ router = "failed"
       /\ last = [op |-> "none"]
       /\ held = NoToken
       /\ users = {}
       /\ pending = {}
  /\ last.op # "none" => (router = "ready" /\ secret # "")

\* Construction with the empty secret has failed.
C19_Witness == secret = "" /\ router = "failed"

\* The envelope rule for one response.
Enveloped(res) ==
  /\ "success" \in DOMAIN res.body
  /\ res.body.success \in BOOLEAN
  /\ ~res.body.success =>
       "message" \in DOMAIN res.body /\ "data" \notin DOMAIN res.body
  /\ res.body.success => "data" \in DOMAIN res.body

\* C20: every response of register, login, GET /me and the gate has a
\* top-level boolean success; one with success = false has a message and no
\* data, one with success = true has data.
C20_ResponseEnvelope ==
  /\ (last.op \in {"register", "login", "me"} /\ "res" \in DOMAIN last) =>
       Enveloped(last.res)
  /\ (last.op = "me" /\ "res" \in DOMAIN last.gate) =>
       Enveloped(last.gate.res)

\* GET /me was answered with success = true and data.
C20_Witness ==
  /\ last.op = "me"
  /\ last.res.status = 200
  /\ last.res.body.success
  /\ "user" \in DOMAIN last.res.body.data

\* The status the taxonomy gives each message of an error kind.
StatusOfMessage(message) ==
  IF message \in Range(RuleReason)
       \cup { "Name, email, and password are required",
              "Email and password are required", "Email already exists" }
    THEN 400
  ELSE IF message \in GateReasons \cup { "Invalid email or password" }
    THEN 401
  ELSE IF message = "User not found" THEN 404
  ELSE IF message = "Internal server error" THEN 500
  ELSE 0

\* C21: each error kind has one fixed status: missing fields, weak password
\* and duplicate email 400; wrong credentials and the gate's rejections
\* (missing header, malformed header, invalid token, expired token) 401; no
\* account for the token's subject 404; an unclassified failure of the
\* directory or of hashing 500; and 200 / 201 only when none of these
\* occurred.
C21_ErrorKindFixesStatus ==
  /\ (last.op = "register" /\ last.stage = "check") =>
       last.res.status = IF last.fault THEN 500 ELSE 400
  /\ (last.op = "register" /\ last.stage = "create") =>
       last.res.status =
         IF last.cause \in {"hash", "Error"} THEN 500
         ELSE IF last.cause = "ValidationError" THEN 400
         ELSE IF last.created THEN 201
         ELSE 400
  /\ last.op = "login" =>
       last.res.status =
         IF last.req.email = <<>> \/ last.req.password = <<>> THEN 400
         ELSE IF last.fault THEN 500
         ELSE IF \E u \in users : /\ SameMailbox(u.email, last.req.email)
                                  /\ u.password.of = last.req.password
           THEN 200
         ELSE 401
  /\ last.op = "me" =>
       last.res.status =
         IF ~last.gate.next THEN 401
         ELSE IF last.fault THEN 500
         ELSE IF \E u \in users : IdToString(u._id) = last.gate.user.id
           THEN 200
         ELSE 404
  /\ (last.op \in {"register", "login", "me"} /\ "res" \in DOMAIN last) =>
       /\ last.res.body.success <=> last.res.status \in {200, 201}
       /\ (~last.res.body.success
             /\ StatusOfMessage(last.res.body.message) # 0) =>
            last.res.status = StatusOfMessage(last.res.body.message)

\* A login without a password was answered 400, and an account exists that
\* a complete login could have matched.
C21_Witness ==
  /\ last.op = "login"
  /\ last.req.password = <<>>
  /\ last.res.status = 400
  /\ users # {}

\* The header carries a token signed for the configured secret and not yet
\* expired at the time of the request.
ValidTokenAt(h, clock) ==
  CarriesToken(h) /\ SignedFor(h[3], secret) /\ clock < h[3].exp

\* C22: GET /me (lookup not failing) with a valid, unexpired token whose
\* subject is no stored account is answered 404 "User not found"; it is
\* answered 200 exactly when the gate accepted the token and the account of
\* the token's subject exists, and then with that account's id, name,
\* email, createdAt and updatedAt.
C22_UnknownSubjectNotFound ==
  (last.op = "me" /\ ~last.fault) =>
    LET subject == { u \in users :
                       /\ last.gate.next
                       /\ IdToString(u._id) = last.header[3].userId }
    IN /\ (ValidTokenAt(last.header, last.clock) /\ subject = {}) =>
            last.res = Failure(404, "User not found")
       /\ last.res.status = 200 <=> (last.gate.next /\ subject # {})
       /\ last.res.status = 200 =>
            \E u \in subject :
              last.res.body.data.user =
                [id |-> u._id, name |-> u.name, email |-> u.email,
                 createdAt |-> u.createdAt, updatedAt |-> u.updatedAt]

\* A token the application signed for a subject it does not store was
\* accepted by the gate and answered 404.
C22_Witness ==
  /\ last.op = "me"
  /\ ValidTokenAt(last.header, last.clock)
  /\ last.gate.next
  /\ last.res = Failure(404, "User not found")

\* The request just answered met a failure the handler does not classify:
\* the directory's call threw (neither a duplicate key nor a validation
\* error), or bcrypt.hash threw.
UnexpectedFailure(record) ==
  \/ record.op = "register" /\ record.stage = "check" /\ record.fault
  \/ record.op = "register" /\ record.stage = "create"
       /\ record.cause \in {"hash", "Error"}
  \/ record.op \in {"login", "me"} /\ record.fault

\* C23: a request of register, login or GET /me that meets such a failure is
\* answered 500 with exactly success = false and the message
\* "Internal server error", and stores no account.
C23_UnexpectedFailureIsGeneric500 ==
  [][ (last' # last /\ UnexpectedFailure(last')) =>
        /\ last'.res.status = 500
        /\ last'.res.body =
             [success |-> FALSE, message |-> "Internal server error"]
        /\ users' = users
        /\ held' = held
    ]_vars

\* bcrypt.hash threw in a registration, which was answered 500.
C23_Witness ==
  /\ last.op = "register"
  /\ last.stage = "create"
  /\ last.cause = "hash"
  /\ ~last.created
  /\ last.res.status = 500

\* What the gate is to decide for a header at a time, from the header, the
\* configured secret and the time alone.
OwnOutcome(request) ==
  /\ request.gate.next <=> ValidTokenAt(request.header, request.clock)
  /\ request.gate.next =>
       request.gate.user = [id |-> request.header[3].userId,
                            email |-> request.header[3].email]
  /\ ~request.gate.next => request.gate.res.status = 401

\* C24: under every interleaving of concurrent GET /me requests, the gate's
\* outcome for each request and the identity attached to it are those of its
\* own header, the secret and the time of its check, and the identity its
\* handler sees is the one attached to that request, never another's.
C24_RequestsAreIndependent ==
  /\ \A request \in pending : OwnOutcome(request)
  /\ last.op \in {"gate", "me"} => OwnOutcome(last)
  /\ (last.op = "me" /\ "seen" \in DOMAIN last) =>
       last.seen = [id |-> last.header[3].userId,
                    email |-> last.header[3].email]

\* A request was answered for its own identity while a request with another
\* identity, passed by the gate, was still waiting for its handler.
C24_Witness ==
  /\ last.op = "me"
  /\ "seen" \in DOMAIN last
  /\ \E other \in pending : other.gate.user # last.seen

\* C25: the signature is checked before the expiry: a token that is past
\* its expiry and not validly signed for the gate's secret is rejected as
\* "Invalid token", and "Token has expired" is reported only for a token
\* whose signature validated.
C25_SignatureBeforeExpiry ==
  (last.op = "me" /\ CarriesToken(last.header)) =>
    LET token == last.header[3] IN
      /\ (last.clock >= token.exp /\ ~SignedFor(token, secret)) =>
           last.res = Reject("Invalid token")
      /\ last.res = Reject("Token has expired") => SignedFor(token, secret)

\* The request just answered presented the token a login issued, unaltered.
PresentsIssued(record) ==
  /\ record.op = "me"
  /\ held # NoToken
  /\ record.header = BearerHeader(held)

\* C26: the clock never goes back; a token issued by login is accepted by
\* the gate at time t exactly when issued-at <= t < issued-at + expiresIn,
\* and rejected as expired from then on, so a presentation that follows a
\* rejection as expired is rejected as well.
C26_ExpiredStaysExpired ==
  [][ /\ now' >= now
      /\ (last' # last /\ PresentsIssued(last')) =>
           /\ last'.gate.next <=>
                (held.iat <= last'.clock /\ last'.clock < held.iat + expiresIn)
           /\ ~last'.gate.next => last'.res = Reject("Token has expired")
           /\ held' = held
      /\ (PresentsIssued(last) /\ last.res = Reject("Token has expired")
            /\ last'.op = "me" /\ last'.header = last.header) =>
           ~last'.gate.next
    ]_vars

\* The issued token was presented at the very second of its expiry and
\* rejected as expired.
C26_Witness ==
  /\ PresentsIssued(last)
  /\ last.clock = held.iat + expiresIn
  /\ last.res = Reject("Token has expired")

\* The header "Bearer " : the scheme, one space, and nothing after it.
BearerThenNothing == <<Word("Bearer"), SP>>

\* C27 as stated: the header "Bearer " (an empty token) is rejected with
\* 401, the request does not proceed, and the reason is the header-format
\* one.
C27_EmptyTokenIsFormatError ==
  (last.op = "me" /\ last.header = BearerThenNothing) =>
    /\ ~last.gate.next
    /\ last.res = Reject(FormatMessage)

\* C27 amended: the header "Bearer " is rejected with 401 and the request
\* does not proceed; it passes the format check (split(" ") gives the two
\* fields "Bearer" and "") and the empty token fails verification, so the
\* reason is "Invalid token".
C27_EmptyTokenIsInvalidToken ==
  (last.op = "me" /\ last.header = BearerThenNothing) =>
    /\ ~last.gate.next
    /\ last.gate.verified
    /\ last.res.status = 401
    /\ last.res = Reject("Invalid token")

\* GET /me with the header "Bearer " was answered.
C27_Witness ==
  /\ last.op = "me"
  /\ last.header = BearerThenNothing
  /\ Len(Split(last.header)) = 2
  /\ last.res.status = 401

====
